---------------------------- MODULE Spec2Model ----------------------------
(***************************************************************************)
(* A model of crous_bot.py: one run of scrape_crous_listings fetches the   *)
(* listing page, extracts the cards, compares them by id with the snapshot *)
(* file, sends at most one Telegram message and rewrites the snapshot.     *)
(*                                                                         *)
(* Text is a sequence of tokens.  A token is either one character that the *)
(* code treats specially (a MarkdownV2 reserved character, the backslash,  *)
(* a blank, an HTML entity) or a run of ordinary characters.  Python's     *)
(* string concatenation is \o on these sequences.                          *)
(***************************************************************************)
EXTENDS Naturals, Sequences, FiniteSets

VARIABLES
    file,                   \* content of previous_listings.json
    pc,                     \* position of the run inside scrape_crous_listings
    response,               \* outcome of requests.get and the page it returned
    new_state,              \* local new_state
    previous_state,         \* local previous_state
    new_listings_detected,  \* local new_listings_detected
    message,                \* the message built at lines 132-139
    sent,                   \* bot.send_message calls made by this run
    delivered,              \* outcome of this run's send: "none", "ok", "failed"
    snapshot_before,        \* history: the file as it was when the run started
    ever_saved,             \* history: ids written to the file by any earlier run
    last_saved_ids,         \* history: ids written by the run that last saved
    last_delivery,          \* history: delivery outcome of the run that last saved
    esc,                    \* escape_markdown applied to a text, then to its result
    idh                     \* two cards, their listings and their comparison

vars == <<file, pc, response, new_state, previous_state, new_listings_detected,
          message, sent, delivered, snapshot_before, ever_saved, last_saved_ids,
          last_delivery, esc, idh>>

runLocals == <<response, new_state, previous_state, new_listings_detected,
               message, sent, delivered, snapshot_before>>

history == <<ever_saved, last_saved_ids, last_delivery>>

-----------------------------------------------------------------------------
(* Bounds of the model *)

MaxCards == 2

MaxTextLen == 3

MaxTitlePieces == 3

MaxHrefPieces == 2

-----------------------------------------------------------------------------
(* Text helpers *)

SeqsUpTo(S, n) == UNION {[1..k -> S] : k \in 0..n}

RECURSIVE Flatten(_)
Flatten(ss) == IF ss = <<>> THEN <<>> ELSE Head(ss) \o Flatten(Tail(ss))

BASE_URL == <<"https://trouverunlogement", ".", "lescrous", ".", "fr">>

NO_LINK == <<"No Link">>

Whitespace == {" "}

\* str.strip(): leading and trailing blanks removed
RECURSIVE LStrip(_)
LStrip(s) == IF s # <<>> /\ Head(s) \in Whitespace THEN LStrip(Tail(s)) ELSE s

RECURSIVE RStrip(_)
RStrip(s) ==
    IF s # <<>> /\ s[Len(s)] \in Whitespace THEN RStrip(SubSeq(s, 1, Len(s) - 1)) ELSE s

Strip(s) == RStrip(LStrip(s))

\* html.unescape on one token: an entity becomes the character it names
UnescapeToken(t) ==
    CASE t = "&amp;" -> "&"
      [] t = "&#45;" -> "-"
      [] t = "&#32;" -> " "
      [] OTHER -> t

HtmlUnescape(s) == [i \in 1..Len(s) |-> UnescapeToken(s[i])]

clean_text(text) == IF text # <<>> THEN HtmlUnescape(Strip(text)) ELSE <<"Unknown">>

\* the grave accent, which cannot be written inside a TLA+ string
GRAVE == "<grave accent>"

ESCAPE_CHARS ==
    {"_", "*", "\\", "[", "]", "(", ")", "~", GRAVE, ">", "#", "+", "-", "=", "|",
     "{", "}", ".", "!"}

\* a mutant of escape_markdown: the backslash is left out of the character class
RECURSIVE escape_markdown_keeps_backslash(_)
escape_markdown_keeps_backslash(text) ==
    IF text = <<>> THEN <<>>
    ELSE (IF Head(text) \in ESCAPE_CHARS \ {"\\"} THEN <<"\\", Head(text)>> ELSE <<Head(text)>>)
         \o escape_markdown_keeps_backslash(Tail(text))

\* re.sub over the character class: every character of the class, the backslash
\* included, gets a backslash in front of it
RECURSIVE escape_markdown(_)
escape_markdown(text) ==
    IF text = <<>> THEN <<>>
    ELSE (IF Head(text) \in ESCAPE_CHARS THEN <<"\\", Head(text)>> ELSE <<Head(text)>>)
         \o escape_markdown(Tail(text))

-----------------------------------------------------------------------------
(* The page: cards with optional sub-elements *)

NoTag == [tag |-> FALSE, text |-> <<>>]

Tag(t) == [tag |-> TRUE, text |-> t]

\* lines 95-117: one card becomes one listing record
ExtractListing(card) ==
    LET title == IF card.title.tag THEN clean_text(card.title.text) ELSE <<"Unknown Title">>
        link == IF card.href.tag THEN BASE_URL \o card.href.text ELSE NO_LINK
        location == IF card.location.tag THEN clean_text(card.location.text)
                    ELSE <<"Unknown Location">>
        price == IF card.price.tag THEN clean_text(card.price.text) ELSE <<"No Price Info">>
    IN  [id |-> title \o <<"-">> \o link,
         title |-> title, location |-> location, price |-> price, link |-> link]

\* lines 90-117: the loop over the cards, in document order
ExtractListings(cards) == [i \in 1..Len(cards) |-> ExtractListing(cards[i])]

Ids(listings) == {listings[i].id : i \in 1..Len(listings)}

\* lines 124-128: the loop over new_state, left at the first listing whose id no
\* entry of previous_state carries
RECURSIVE DetectFrom(_, _, _)
DetectFrom(new, prev, i) ==
    IF i > Len(new) THEN FALSE
    ELSE IF ~(\E j \in 1..Len(prev) : prev[j].id = new[i].id) THEN TRUE
    ELSE DetectFrom(new, prev, i + 1)

\* a mutant of DetectNew: the break leaves the loop after the first listing
DetectNew_first_only(new, prev) ==
    new # <<>> /\ ~(\E j \in 1..Len(prev) : prev[j].id = new[1].id)

DetectNew(new, prev) == DetectFrom(new, prev, 1)

\* a mutant of ShouldNotify: the message is sent in every run
ShouldNotify_always(detected) == TRUE

\* line 131
ShouldNotify(detected) == detected

\* lines 132-139: the count and, per listing, its four escaped fields
BuildMessage(listings) ==
    [count |-> Len(listings),
     entries |-> [i \in 1..Len(listings) |->
                    [title |-> escape_markdown(listings[i].title),
                     location |-> escape_markdown(listings[i].location),
                     price |-> escape_markdown(listings[i].price),
                     link |-> escape_markdown(listings[i].link)]]]

NoMessage == [count |-> 0, entries |-> <<>>]

-----------------------------------------------------------------------------
(* The snapshot file and the calls that can fail *)

AbsentFile == [kind |-> "absent", data |-> <<>>]

MalformedFile == [kind |-> "malformed", data |-> <<>>]

\* json.dump: the file holds a JSON array of the listings, in their order
json_dump(listings) == [kind |-> "json", data |-> listings]

Returned(v) == [raised |-> FALSE, value |-> v]

Raised == [raised |-> TRUE, value |-> <<>>]

\* a mutant of load_previous_listings: only FileNotFoundError is caught
load_previous_listings_decode_error(f) ==
    CASE f.kind = "json" -> Returned(f.data)
      [] f.kind = "absent" -> Returned(<<>>)
      [] OTHER -> Raised

\* open + json.load; FileNotFoundError and JSONDecodeError give []
load_previous_listings(f) ==
    CASE f.kind = "json" -> Returned(f.data)
      [] f.kind = "absent" -> Returned(<<>>)
      [] OTHER -> Returned(<<>>)

\* a mutant of save_seen_listings: the listings are added to those already stored
save_seen_listings_merge(old, listings) ==
    json_dump(old.data \o SelectSeq(listings, LAMBDA l : l.id \notin Ids(old.data)))

\* a mutant of save_seen_listings: the file is opened in append mode
save_seen_listings_append(old, listings) ==
    IF old.kind = "absent" THEN json_dump(listings) ELSE MalformedFile

\* mode "w" truncates the old content, then json.dump writes the listings
save_seen_listings(old, listings) == json_dump(listings)

DeliveryOutcomes == {"ok", "api_error", "network_error"}

\* a mutant of send_telegram_message: the exception of bot.send_message escapes
send_telegram_message_uncaught(outcome) ==
    IF outcome = "ok" THEN Returned("ok") ELSE Raised

\* bot.send_message inside try / except Exception: nothing escapes
send_telegram_message(outcome) ==
    IF outcome = "ok" THEN Returned("ok") ELSE Returned("failed")

-----------------------------------------------------------------------------
(* Pages the site may serve *)

CardA ==
    [title |-> Tag(<<"Studio", "-", "A">>), href |-> Tag(<<"/a">>),
     location |-> Tag(<<"Lyon">>), price |-> Tag(<<"300">>)]

\* the same title and link as CardA once cleaned, another price
CardA2 ==
    [title |-> Tag(<<" ", "Studio", "&#45;", "A", " ">>), href |-> Tag(<<"/a">>),
     location |-> Tag(<<"Lyon">>), price |-> Tag(<<"350", ".", "5">>)]

CardB ==
    [title |-> Tag(<<"T1", "&amp;", "bis">>), href |-> Tag(<<"/b">>),
     location |-> Tag(<<>>), price |-> Tag(<<"300">>)]

\* a card without any of the four sub-elements
CardBare == [title |-> NoTag, href |-> NoTag, location |-> NoTag, price |-> NoTag]

Cards == {CardA, CardA2, CardB, CardBare}

Pages == [marker : BOOLEAN, cards : SeqsUpTo(Cards, MaxCards)]

FetchErrors == {"network_error", "timeout", "bad_status"}

NoResponse == [status |-> "none", marker |-> FALSE, cards |-> <<>>]

\* lines 77-78: the heading that says no accommodation was found
NoResults(resp) == resp.marker

\* a mutant of NoCards: the run goes on with an empty selection
NoCards_goes_on(resp) == FALSE

\* line 85
NoCards(resp) == resp.cards = <<>>

-----------------------------------------------------------------------------
(* Texts for escape_markdown, cards for the id *)

EscAlphabet == {"a", "_", ".", "\\"}

Texts == SeqsUpTo(EscAlphabet, MaxTextLen)

EscOff == [pc |-> "off", text |-> <<>>, once |-> <<>>, twice |-> <<>>]

TitlePieces == {<<"T">>, <<"-">>, BASE_URL}

HrefPieces == {<<"-">>, BASE_URL}

IdTitles == {Tag(Flatten(ps)) : ps \in SeqsUpTo(TitlePieces, MaxTitlePieces)} \cup {NoTag}

IdHrefs == {Tag(Flatten(ps)) : ps \in SeqsUpTo(HrefPieces, MaxHrefPieces)} \cup {NoTag}

IdPrices == {Tag(<<"300">>), Tag(<<"350">>)}

IdOff == [pc |-> "off", a |-> CardBare, b |-> CardBare,
          listing_a |-> ExtractListing(CardBare), listing_b |-> ExtractListing(CardBare),
          detected |-> FALSE]

-----------------------------------------------------------------------------
(* The run *)

RunInit ==
    /\ pc = "idle"
    /\ response = NoResponse
    /\ new_state = <<>>
    /\ previous_state = <<>>
    /\ new_listings_detected = FALSE
    /\ message = NoMessage
    /\ sent = 0
    /\ delivered = "none"
    /\ snapshot_before = AbsentFile
    /\ file = AbsentFile
    /\ ever_saved = {}
    /\ last_saved_ids = {}
    /\ last_delivery = "none"

Init == RunInit /\ esc = EscOff /\ idh = IdOff

\* a mutant of FetchFail: the handler falls through to the save with nothing extracted
FetchFail_saves ==
    /\ pc = "idle"
    /\ \E err \in FetchErrors : response' = [NoResponse EXCEPT !.status = err]
    /\ snapshot_before' = file
    /\ file' = save_seen_listings(file, new_state)
    /\ pc' = "aborted"
    /\ UNCHANGED <<new_state, previous_state, new_listings_detected, message, sent,
                   delivered, history, esc, idh>>

\* lines 66-72: requests.get or raise_for_status raises, the handler returns
FetchFail ==
    /\ pc = "idle"
    /\ \E err \in FetchErrors : response' = [NoResponse EXCEPT !.status = err]
    /\ snapshot_before' = file
    /\ pc' = "aborted"
    /\ UNCHANGED <<file, new_state, previous_state, new_listings_detected, message, sent,
                   delivered, history, esc, idh>>

\* lines 66-69 and 74: the page arrives and is parsed
FetchOk ==
    /\ pc = "idle"
    /\ \E page \in Pages :
          response' = [status |-> "ok", marker |-> page.marker, cards |-> page.cards]
    /\ snapshot_before' = file
    /\ pc' = "fetched"
    /\ UNCHANGED <<file, new_state, previous_state, new_listings_detected, message, sent,
                   delivered, history, esc, idh>>

\* lines 77-80
ReturnNoResults ==
    /\ pc = "fetched"
    /\ NoResults(response)
    /\ pc' = "aborted"
    /\ UNCHANGED <<file, response, new_state, previous_state, new_listings_detected,
                   message, sent, delivered, snapshot_before, history,
                   esc, idh>>

\* lines 83-87
ReturnNoCards ==
    /\ pc = "fetched"
    /\ ~NoResults(response)
    /\ NoCards(response)
    /\ pc' = "aborted"
    /\ UNCHANGED <<file, response, new_state, previous_state, new_listings_detected,
                   message, sent, delivered, snapshot_before, history,
                   esc, idh>>

\* lines 83-119
Extract ==
    /\ pc = "fetched"
    /\ ~NoResults(response)
    /\ ~NoCards(response)
    /\ new_state' = ExtractListings(response.cards)
    /\ pc' = "extracted"
    /\ UNCHANGED <<file, response, previous_state, new_listings_detected, message, sent,
                   delivered, snapshot_before, history, esc, idh>>

\* line 122
Load ==
    /\ pc = "extracted"
    /\ LET r == load_previous_listings(file)
       IN  /\ pc' = IF r.raised THEN "crashed" ELSE "loaded"
           /\ previous_state' = r.value
    /\ UNCHANGED <<file, response, new_state, new_listings_detected, message, sent,
                   delivered, snapshot_before, history, esc, idh>>

\* lines 124-128
Diff ==
    /\ pc = "loaded"
    /\ new_listings_detected' = DetectNew(new_state, previous_state)
    /\ pc' = "diffed"
    /\ UNCHANGED <<file, response, new_state, previous_state, message, sent, delivered,
                   snapshot_before, history, esc, idh>>

\* lines 131-143
Notify ==
    /\ pc = "diffed"
    /\ ShouldNotify(new_listings_detected)
    /\ message' = BuildMessage(new_state)
    /\ sent' = sent + 1
    /\ \E outcome \in DeliveryOutcomes :
          LET r == send_telegram_message(outcome)
          IN  /\ pc' = IF r.raised THEN "crashed" ELSE "notified"
              /\ delivered' = IF r.raised THEN "failed" ELSE r.value
    /\ UNCHANGED <<file, response, new_state, previous_state, new_listings_detected,
                   snapshot_before, history, esc, idh>>

\* lines 144-145
SkipNotify ==
    /\ pc = "diffed"
    /\ ~ShouldNotify(new_listings_detected)
    /\ pc' = "notified"
    /\ UNCHANGED <<file, response, new_state, previous_state, new_listings_detected,
                   message, sent, delivered, snapshot_before, history,
                   esc, idh>>

\* line 148
Save ==
    /\ pc = "notified"
    /\ file' = save_seen_listings(file, new_state)
    /\ ever_saved' = ever_saved \cup Ids(new_state)
    /\ last_saved_ids' = Ids(new_state)
    /\ last_delivery' = delivered
    /\ pc' = "saved"
    /\ UNCHANGED <<response, new_state, previous_state, new_listings_detected, message,
                   sent, delivered, snapshot_before, esc, idh>>

\* the coroutine is over (a return, the end of the body, or an exception that
\* escaped); the next start of the script begins with fresh locals
Return ==
    /\ pc \in {"aborted", "saved", "crashed"}
    /\ pc' = "idle"
    /\ response' = NoResponse
    /\ new_state' = <<>>
    /\ previous_state' = <<>>
    /\ new_listings_detected' = FALSE
    /\ message' = NoMessage
    /\ sent' = 0
    /\ delivered' = "none"
    /\ snapshot_before' = AbsentFile
    /\ UNCHANGED <<file, history, esc, idh>>

\* between two runs the file is removed
DeleteFile ==
    /\ pc = "idle"
    /\ file.kind = "json"
    /\ file' = AbsentFile
    /\ UNCHANGED <<pc, runLocals, history, esc, idh>>

\* between two runs the file is damaged, so that it no longer holds JSON
CorruptFile ==
    /\ pc = "idle"
    /\ file.kind = "json"
    /\ file' = MalformedFile
    /\ UNCHANGED <<pc, runLocals, history, esc, idh>>

Next ==
    \/ FetchFail
    \/ FetchOk
    \/ ReturnNoResults
    \/ ReturnNoCards
    \/ Extract
    \/ Load
    \/ Diff
    \/ Notify
    \/ SkipNotify
    \/ Save
    \/ Return
    \/ DeleteFile
    \/ CorruptFile

Spec == Init /\ [][Next]_vars

-----------------------------------------------------------------------------
(* escape_markdown on its own: a text, its escape, the escape of the escape *)

InitEscape ==
    /\ RunInit
    /\ idh = IdOff
    /\ \E t \in Texts : esc = [pc |-> "text", text |-> t, once |-> <<>>, twice |-> <<>>]

EscapeOnce ==
    /\ esc.pc = "text"
    /\ esc' = [esc EXCEPT !.pc = "once", !.once = escape_markdown(esc.text)]
    /\ UNCHANGED <<file, pc, runLocals, history, idh>>

EscapeTwice ==
    /\ esc.pc = "once"
    /\ esc' = [esc EXCEPT !.pc = "twice", !.twice = escape_markdown(esc.once)]
    /\ UNCHANGED <<file, pc, runLocals, history, idh>>

NextEscape == EscapeOnce \/ EscapeTwice

SpecEscape == InitEscape /\ [][NextEscape]_vars

-----------------------------------------------------------------------------
(* The id on its own: card a is in the snapshot, card b is on the page *)

InitId ==
    /\ RunInit
    /\ esc = EscOff
    /\ \E ta \in IdTitles, ha \in IdHrefs, tb \in IdTitles, hb \in IdHrefs, pb \in IdPrices :
          idh = [IdOff EXCEPT
                   !.pc = "cards",
                   !.a = [title |-> ta, href |-> ha, location |-> Tag(<<"Lyon">>),
                          price |-> Tag(<<"300">>)],
                   !.b = [title |-> tb, href |-> hb, location |-> Tag(<<"Lyon">>),
                          price |-> pb]]

IdExtract ==
    /\ idh.pc = "cards"
    /\ idh' = [idh EXCEPT !.pc = "listings",
                          !.listing_a = ExtractListing(idh.a),
                          !.listing_b = ExtractListing(idh.b)]
    /\ UNCHANGED <<file, pc, runLocals, history, esc>>

IdCompare ==
    /\ idh.pc = "listings"
    /\ idh' = [idh EXCEPT !.pc = "compared",
                          !.detected = DetectNew(<<idh.listing_b>>, <<idh.listing_a>>)]
    /\ UNCHANGED <<file, pc, runLocals, history, esc>>

NextId == IdExtract \/ IdCompare

SpecId == InitId /\ [][NextId]_vars

-----------------------------------------------------------------------------
(* Properties *)

RunEnded == {"aborted", "saved", "crashed"}

\* the ids of the snapshot the run started from; none when the file was missing
\* or did not hold JSON
SnapshotIds == IF snapshot_before.kind = "json" THEN Ids(snapshot_before.data) ELSE {}

IdSeq(listings) == [i \in 1..Len(listings) |-> listings[i].id]

ReservedAt(s) == {i \in 1..Len(s) : s[i] \in ESCAPE_CHARS}

\* C1: a run whose fetch failed (network error, timeout, bad status) is over at
\* once: the snapshot file is what it was when the run started and no send was
\* attempted.
C1_FetchFailureAborts ==
    response.status \in FetchErrors =>
        /\ pc = "aborted"
        /\ file = snapshot_before
        /\ sent = 0
        /\ delivered = "none"

C1_Witness ==
    /\ response.status = "timeout"
    /\ pc = "aborted"
    /\ snapshot_before.kind = "json"
    /\ snapshot_before.data # <<>>

\* C2, as claimed: every run whose fetch succeeded ends with the snapshot file
\* holding the run's listings, the empty list when the page carries the marker or
\* has no card.
C2_AlwaysPersists ==
    (response.status = "ok" /\ pc \in RunEnded) =>
        /\ pc = "saved"
        /\ file = json_dump(IF response.marker THEN <<>> ELSE ExtractListings(response.cards))

\* C2, amended: a run whose fetch succeeded goes on to load, diff and save exactly
\* when the page has no marker and at least one card; otherwise it returns with
\* the snapshot file untouched and nothing sent.
C2_PersistsUnlessEmpty ==
    (response.status = "ok" /\ pc \in RunEnded) =>
        IF response.marker \/ response.cards = <<>>
        THEN pc = "aborted" /\ file = snapshot_before /\ sent = 0
        ELSE pc = "saved" /\ file = json_dump(ExtractListings(response.cards))

C2_Witness ==
    /\ response.status = "ok"
    /\ response.cards = <<>>
    /\ pc = "aborted"
    /\ snapshot_before.kind = "json"
    /\ snapshot_before.data # <<>>
    /\ file = snapshot_before

\* C3: once the diff has run, new_listings_detected is true exactly when some
\* current listing's id is the id of no entry of previous_state.
C3_DetectedIffAbsentId ==
    pc \in {"diffed", "notified", "saved"} =>
        (new_listings_detected <=>
            \E i \in 1..Len(new_state) : new_state[i].id \notin Ids(previous_state))

C3_Witness ==
    /\ pc = "diffed"
    /\ new_listings_detected
    /\ Len(new_state) = 2
    /\ new_state[1].id \in Ids(previous_state)
    /\ new_state[2].id \notin Ids(previous_state)

\* C4: a run makes at most one send, none before the diff, and after the branch
\* at line 131 it has made one exactly when some current id is absent from the
\* snapshot the run started from; the message counts all current listings.
C4_SendIffNew ==
    /\ sent <= 1
    /\ pc \in {"idle", "fetched", "extracted", "loaded", "diffed", "aborted"} => sent = 0
    /\ pc \in {"notified", "saved"} =>
          (sent = 1 <=> \E i \in 1..Len(new_state) : new_state[i].id \notin SnapshotIds)
    /\ sent = 1 => message.count = Len(new_state)

C4_Witness ==
    /\ pc = "saved"
    /\ sent = 0
    /\ snapshot_before.kind = "json"
    /\ Cardinality(SnapshotIds) = 2
    /\ Ids(new_state) = SnapshotIds

\* C5: when the run has saved, the file holds exactly the listings of the cards
\* of this run's page, one per card in document order, whatever it held before.
C5_SnapshotReplaced ==
    pc = "saved" =>
        /\ file.kind = "json"
        /\ file.data = ExtractListings(response.cards)

C5_Witness ==
    /\ pc = "saved"
    /\ snapshot_before.kind = "json"
    /\ Len(snapshot_before.data) = 2
    /\ Len(file.data) = 2
    /\ file.data[1].id = snapshot_before.data[1].id
    /\ snapshot_before.data[2].id \notin Ids(file.data)
    /\ file.data[2].id \notin SnapshotIds

\* C6: a failed delivery does not end the run with an exception; the run saves
\* the current listings as after a delivery that succeeded, and the next run over
\* a page with the same listings detects nothing new and sends nothing.
C6_DeliveryFailureKeepsSave ==
    /\ pc # "crashed"
    /\ (pc = "notified" /\ delivered = "failed") => ENABLED Save
    /\ (pc = "saved" /\ delivered = "failed") =>
          (sent = 1 /\ file = json_dump(ExtractListings(response.cards)))
    /\ (last_delivery = "failed" /\ snapshot_before = json_dump(new_state)) =>
          /\ pc \in {"diffed", "notified"} => ~new_listings_detected
          /\ pc = "notified" => sent = 0

C6_Witness ==
    /\ pc = "notified"
    /\ last_delivery = "failed"
    /\ snapshot_before = json_dump(new_state)
    /\ new_state # <<>>
    /\ sent = 0

\* C7, as claimed: a run whose fetch succeeded and which started from a missing or
\* malformed file ends by writing the current listings to the file.
C7_AlwaysEndsWithSnapshot ==
    (snapshot_before.kind \in {"absent", "malformed"} /\ response.status = "ok"
        /\ pc \in RunEnded) =>
        /\ pc = "saved"
        /\ file = json_dump(IF response.marker THEN <<>> ELSE ExtractListings(response.cards))

\* C7, amended: a missing or malformed file never ends the run with an exception;
\* a run that extracted at least one listing reads it as the empty list, detects
\* new listings, sends, and writes the current listings; a run that extracted
\* nothing returns before reading the file and leaves it as it was.
C7_UnreadableSnapshotIsEmpty ==
    (snapshot_before.kind \in {"absent", "malformed"} /\ response.status = "ok") =>
        /\ pc # "crashed"
        /\ pc \in {"loaded", "diffed", "notified", "saved"} => previous_state = <<>>
        /\ pc \in {"diffed", "notified", "saved"} => new_listings_detected
        /\ pc \in {"notified", "saved"} => sent = 1
        /\ pc = "saved" =>
              (response.cards # <<>> /\ file = json_dump(ExtractListings(response.cards)))
        /\ pc = "aborted" =>
              ((response.marker \/ response.cards = <<>>) /\ file = snapshot_before)

C7_Witness ==
    /\ pc = "saved"
    /\ snapshot_before.kind = "malformed"
    /\ sent = 1
    /\ file.kind = "json"

\* C8: two listings have the same id exactly when they have the same title and the
\* same link, and the diff reports listing b as new against a snapshot holding
\* listing a exactly when b differs from a in title or link.
C8_IdIdentifiesTitleAndLink ==
    LET same == /\ idh.listing_a.title = idh.listing_b.title
                /\ idh.listing_a.link = idh.listing_b.link
    IN  /\ idh.pc \in {"listings", "compared"} =>
              (idh.listing_a.id = idh.listing_b.id <=> same)
        /\ idh.pc = "compared" => (idh.detected <=> ~same)

\* C9, as claimed: escaping the escaped text gives the escaped text.
C9_Idempotent == esc.pc = "twice" => esc.twice = esc.once

\* C9, amended: escape_markdown puts one backslash before every reserved character
\* and every backslash, those of an already escaped text included, so escaping
\* twice equals escaping once exactly when the text holds neither.
C9_EscapesAgain ==
    /\ esc.pc \in {"once", "twice"} =>
          Len(esc.once) = Len(esc.text) + Cardinality(ReservedAt(esc.text))
    /\ esc.pc = "twice" =>
          /\ Len(esc.twice) = Len(esc.once) + Cardinality(ReservedAt(esc.once))
          /\ (esc.twice = esc.once <=> ReservedAt(esc.text) = {})

C9_Witness ==
    /\ esc.pc = "twice"
    /\ esc.text = <<"\\", "_">>
    /\ esc.once = <<"\\", "\\", "\\", "_">>
    /\ Len(esc.twice) = 8

=============================================================================
